---- MODULE Spec2Model ----
(***************************************************************************)
(* Telnyx webhook pipeline of mikegtech/vox-text: the Secret Cache, the    *)
(* signature verifier, the authorizer (gate), the SMS handler (Event       *)
(* Processor) and the two fallback handlers, as state machines over the    *)
(* module globals of each Lambda and the two DynamoDB tables.              *)
(*                                                                         *)
(* Conventions of the model                                                *)
(*  - time.time() is read as whole seconds (variable now).                 *)
(*  - a Python str is a tuple of symbols; None is the tuple None.          *)
(*  - an Ed25519 signature is the triple (signing key, timestamp text,     *)
(*    body) it was made over; verification compares that triple with the   *)
(*    key and the message it is checked against.                           *)
(*  - every call to a collaborator (secret store, DynamoDB) either         *)
(*    succeeds or raises; the outcome is an input of the action.           *)
(***************************************************************************)
EXTENDS Integers, Sequences, FiniteSets, TLC

(* ------------------------------------------------------------------ *)
(* Program constants                                                   *)
(* ------------------------------------------------------------------ *)
CACHE_TTL == 300
DEFAULT_TOLERANCE == 300
AUTH_TOLERANCE == 300
AUTH_FUTURE_SKEW == 60
SIGNATURE_BYTES == 64
PUBLIC_KEY_BYTES == 32

(* ------------------------------------------------------------------ *)
(* Bounds of the model                                                 *)
(* ------------------------------------------------------------------ *)
MaxTicks == 2
MaxAudit == 1
NCallers == 2

(* ------------------------------------------------------------------ *)
(* Values                                                              *)
(* ------------------------------------------------------------------ *)
None == <<"<None>">>
WS == " "
EmptyStr == <<>>

\* Python truthiness of an Optional[str]
Truthy(s) == s # None /\ s # EmptyStr

RECURSIVE lstrip(_)
lstrip(s) == IF s # <<>> /\ Head(s) = WS THEN lstrip(Tail(s)) ELSE s

RECURSIVE rstrip(_)
rstrip(s) ==
    IF s # <<>> /\ s[Len(s)] = WS THEN rstrip(SubSeq(s, 1, Len(s) - 1)) ELSE s

\* (a variant of strip that leaves the text as it is)
strip_Nothing(s) == s

\* str.strip()
strip(s) == rstrip(lstrip(s))

\* base64.b64decode(s): characters outside the alphabet are discarded
RECURSIVE b64chars(_)
b64chars(s) ==
    IF s = <<>> THEN <<>>
    ELSE IF Head(s) = WS THEN b64chars(Tail(s))
    ELSE <<Head(s)>> \o b64chars(Tail(s))

\* The keys whose base64 text the secret store can hold.  K1 is the key the
\* provider signs with, K2 is another well-formed Ed25519 key, "short" is
\* base64 text that decodes to fewer than 32 bytes.
SigningKeys == {"K1", "K2"}

\* length in bytes of the decoded public key text
KeyLen(pk) ==
    LET d == b64chars(pk)
    IN  IF Len(d) = 1 /\ d[1] \in SigningKeys THEN PUBLIC_KEY_BYTES ELSE 0

\* the key a public key text decodes to
KeyOf(pk) == b64chars(pk)[1]

\* SecretString values the secret store can hold
SecretValues == { <<"K1">>, <<"K2", WS>>, <<WS>> }

(* Timestamp header texts: an integer in decimal, the empty text, or a   *)
(* text that int() rejects.                                              *)
TsInt(n) == [kind |-> "int", v |-> n]
TsEmpty == [kind |-> "empty", v |-> 0]
TsText == [kind |-> "text", v |-> 0]

(* Request bodies, named by what json.loads makes of them.               *)
(*   empty    the empty text                                             *)
(*   notjson  json.loads raises JSONDecodeError                          *)
(*   deep     json.loads raises another exception (RecursionError on a   *)
(*            deeply nested document)                                    *)
(*   nondict  valid JSON whose top level is not an object                *)
(*   object   {"data": {"event_type": ..., "payload": {...}}}            *)
Body(kind, et, phone, text, id) ==
    [kind |-> kind, event_type |-> et, phone |-> phone, text |-> text, id |-> id]
BodyEmpty == Body("empty", "", "", "", "")
BodyNotJson == Body("notjson", "", "", "", "")
BodyDeep == Body("deep", "", "", "", "")
BodyNonDict == Body("nondict", "", "", "", "")
Event(et, phone, text, id) == Body("object", et, phone, text, id)

Phones == {"+15551234567"}
Messages == { <<"hi", "m1">>, <<"yo", "m2">> }

Bodies ==
    { Event("message.received", p, m[1], m[2]) : p \in Phones, m \in Messages }
    \cup { Event("message.sent", "", "", "m1"),
           Event("message.delivered", "", "", "m1"),
           Event("message.failed", "", "", "m1"),
           Event("other", "", "", ""),
           Event("", "", "", ""),
           BodyEmpty, BodyNotJson, BodyDeep, BodyNonDict }

\* a body other than b: what a signature made over another payload covers
OtherBody(b) == IF b = BodyEmpty THEN BodyNotJson ELSE BodyEmpty

(* Signature header texts.                                               *)
SigEmpty == [kind |-> "empty", key |-> "", ts |-> TsEmpty, body |-> BodyEmpty]
SigNotB64 == [kind |-> "notb64", key |-> "", ts |-> TsEmpty, body |-> BodyEmpty]
SigShort == [kind |-> "short", key |-> "", ts |-> TsEmpty, body |-> BodyEmpty]
Sign(k, ts, bodyName) == [kind |-> "sig", key |-> k, ts |-> ts, body |-> bodyName]

\* len(base64.b64decode(signature)); -1 when b64decode raises
SigLen(sig) ==
    CASE sig.kind = "sig" -> SIGNATURE_BYTES
      [] sig.kind = "short" -> 3
      [] sig.kind = "empty" -> 0
      [] OTHER -> -1

(* ------------------------------------------------------------------ *)
(* Ed25519 (PyNaCl VerifyKey.verify / cryptography Ed25519PublicKey)   *)
(* ------------------------------------------------------------------ *)
\* verification of sig over timestamp_bytes + b"|" + payload_bytes
Ed25519Verify(pk, ts, payload, sig) ==
    /\ sig.kind = "sig"
    /\ KeyLen(pk) = PUBLIC_KEY_BYTES
    /\ sig.key = KeyOf(pk)
    /\ sig.ts = ts
    /\ sig.body = payload

(* ------------------------------------------------------------------ *)
(* State                                                               *)
(* ------------------------------------------------------------------ *)
VARIABLES
    now,                 \* time.time(), whole seconds
    ticks,               \* clock advances taken so far (bounds the model)
    secret,              \* SecretString held by Secrets Manager
    NACL_AVAILABLE,      \* sms-handler: PyNaCl imported
    public_key_cache,    \* sms-handler: _public_key_cache
    cache_timestamp,     \* sms-handler: _cache_timestamp
    CRYPTO_AVAILABLE,    \* telnyx-authorizer: cryptography imported
    auth_key_cache,      \* telnyx-authorizer: _public_key_cache
    auth_cache_timestamp,\* telnyx-authorizer: _cache_timestamp
    conversations,       \* conversations table: the items it holds
    analytics,           \* analytics table: the items put, in order
    last,                \* the invocation in progress: request, response, trace
    keyCalls,            \* the last two direct calls of get_public_key_from_secrets
    pc,                  \* concurrent callers of get_public_key_from_secrets
    local,               \* their locals (current_time, public_key)
    fetches,             \* get_secret_value calls they have issued
    key_read_at          \* the instant the key they stored was read from the store

vars == << now, ticks, secret, NACL_AVAILABLE, public_key_cache, cache_timestamp,
           CRYPTO_AVAILABLE, auth_key_cache, auth_cache_timestamp,
           conversations, analytics, last, keyCalls, pc, local, fetches,
           key_read_at >>

(* ------------------------------------------------------------------ *)
(* Secret Cache: get_public_key_from_secrets                           *)
(* ------------------------------------------------------------------ *)
\* (a variant of CacheHit that serves the entry at an age of exactly CACHE_TTL)
CacheHit_Inclusive(cache, cts, current_time) ==
    Truthy(cache) /\ (current_time - cts) <= CACHE_TTL

\* The cached key is returned while it is truthy and younger than CACHE_TTL.
CacheHit(cache, cts, current_time) ==
    Truthy(cache) /\ (current_time - cts) < CACHE_TTL

\* (a variant of get_public_key_from_secrets that serves the expired entry
\* when the fetch fails)
get_public_key_from_secrets_FailOpen(cache, cts, current_time, secretString, fetchOk) ==
    IF CacheHit(cache, cts, current_time)
    THEN [ret |-> cache, cache |-> cache, cts |-> cts, fetched |-> 0]
    ELSE IF fetchOk
         THEN LET public_key == strip(secretString)
              IN  [ret |-> public_key, cache |-> public_key,
                   cts |-> current_time, fetched |-> 1]
         ELSE [ret |-> cache, cache |-> cache, cts |-> cts, fetched |-> 1]

\* (a variant of get_public_key_from_secrets that caches the failure: it
\* clears the entry and stamps it with the time of the failed call)
get_public_key_from_secrets_CacheFailure(cache, cts, current_time, secretString, fetchOk) ==
    IF CacheHit(cache, cts, current_time)
    THEN [ret |-> cache, cache |-> cache, cts |-> cts, fetched |-> 0]
    ELSE IF fetchOk
         THEN LET public_key == strip(secretString)
              IN  [ret |-> public_key, cache |-> public_key,
                   cts |-> current_time, fetched |-> 1]
         ELSE [ret |-> None, cache |-> None, cts |-> current_time, fetched |-> 1]

\* sms-handler: one whole call.  fetchOk: get_secret_value returns (TRUE)
\* or raises (FALSE).  ret is the value returned, cache/cts the globals
\* after the call, fetched the number of get_secret_value calls made.
get_public_key_from_secrets(cache, cts, current_time, secretString, fetchOk) ==
    IF CacheHit(cache, cts, current_time)
    THEN [ret |-> cache, cache |-> cache, cts |-> cts, fetched |-> 0]
    ELSE IF fetchOk
         THEN LET public_key == strip(secretString)
              IN  [ret |-> public_key, cache |-> public_key,
                   cts |-> current_time, fetched |-> 1]
         ELSE [ret |-> None, cache |-> cache, cts |-> cts, fetched |-> 1]

\* telnyx-authorizer: the same function, without the strip()
auth_get_public_key_from_secrets(cache, cts, current_time, secretString, fetchOk) ==
    IF CacheHit(cache, cts, current_time)
    THEN [ret |-> cache, cache |-> cache, cts |-> cts, fetched |-> 0]
    ELSE IF fetchOk
         THEN [ret |-> secretString, cache |-> secretString,
               cts |-> current_time, fetched |-> 1]
         ELSE [ret |-> None, cache |-> cache, cts |-> cts, fetched |-> 1]

(* ------------------------------------------------------------------ *)
(* sms-handler: signature verification                                 *)
(* ------------------------------------------------------------------ *)
(* A verification result: ok is the boolean the code returns; verdict    *)
(* names the place where the code rejected (or Valid); cryptoRan counts  *)
(* the Ed25519 verifications run and cryptoOk tells that one succeeded.  *)
Verdict(ok, verdict, ran, cok) ==
    [ok |-> ok, verdict |-> verdict, cryptoRan |-> ran, cryptoOk |-> cok]

\* (a variant of TimestampTooOld that rejects an age of exactly the tolerance)
TimestampTooOld_Inclusive(timestamp, current_time, tolerance) ==
    tolerance # 0 /\ timestamp.v <= current_time - tolerance

\* "tolerance and int(timestamp) < time.time() - tolerance"
TimestampTooOld(timestamp, current_time, tolerance) ==
    tolerance # 0 /\ timestamp.v < current_time - tolerance

verify_with_nacl(payload, signature, timestamp, public_key, tolerance, current_time) ==
    IF KeyLen(public_key) # PUBLIC_KEY_BYTES
    THEN Verdict(FALSE, "InvalidSignature", 0, FALSE)        \* VerifyKey(...) raises
    ELSE IF ~Ed25519Verify(public_key, timestamp, payload, signature)
    THEN Verdict(FALSE, "InvalidSignature", 1, FALSE)        \* BadSignatureError / decode error
    ELSE IF tolerance # 0 /\ timestamp.kind # "int"
    THEN Verdict(FALSE, "MalformedHeader", 1, TRUE)          \* int(timestamp) raises ValueError
    ELSE IF TimestampTooOld(timestamp, current_time, tolerance)
    THEN Verdict(FALSE, "ExpiredTimestamp", 1, TRUE)
    ELSE Verdict(TRUE, "Valid", 1, TRUE)

verify_basic_format(signature, public_key) ==
    IF SigLen(signature) < 0
    THEN Verdict(FALSE, "InvalidSignature", 0, FALSE)        \* b64decode raises
    ELSE IF SigLen(signature) # SIGNATURE_BYTES
    THEN Verdict(FALSE, "InvalidSignature", 0, FALSE)
    ELSE IF KeyLen(public_key) # PUBLIC_KEY_BYTES
    THEN Verdict(FALSE, "InvalidSignature", 0, FALSE)
    ELSE Verdict(TRUE, "Valid", 0, FALSE)

\* The verifier chosen by the import at module load.
VerifyWith(nacl, payload, signature, timestamp, public_key, tolerance, current_time) ==
    IF nacl
    THEN verify_with_nacl(payload, signature, timestamp, public_key, tolerance, current_time)
    ELSE verify_basic_format(signature, public_key)

\* (a variant of validate_telnyx_webhook that asks for the key before it
\* looks at the headers)
validate_telnyx_webhook_KeyFirst(payload, signature, timestamp, tolerance, nacl, cache, cts, current_time, secretString, fetchOk) ==
    LET key == get_public_key_from_secrets(cache, cts, current_time, secretString, fetchOk)
    IN  IF signature.kind = "empty" \/ timestamp.kind = "empty"
        THEN [v |-> Verdict(FALSE, "MalformedHeader", 0, FALSE), key |-> key]
        ELSE IF ~Truthy(key.ret)
        THEN [v |-> Verdict(FALSE, "KeyUnavailable", 0, FALSE), key |-> key]
        ELSE [v |-> VerifyWith(nacl, payload, signature, timestamp, key.ret,
                               tolerance, current_time),
              key |-> key]

\* validate_telnyx_webhook: v is the verification result, key the outcome of
\* the Secret Cache call (unchanged globals when the call was not made).
validate_telnyx_webhook(payload, signature, timestamp, tolerance, nacl, cache, cts, current_time, secretString, fetchOk) ==
    LET nokey == [ret |-> None, cache |-> cache, cts |-> cts, fetched |-> 0]
        key == get_public_key_from_secrets(cache, cts, current_time, secretString, fetchOk)
    IN  IF signature.kind = "empty" \/ timestamp.kind = "empty"
        THEN [v |-> Verdict(FALSE, "MalformedHeader", 0, FALSE), key |-> nokey]
        ELSE IF ~Truthy(key.ret)
        THEN [v |-> Verdict(FALSE, "KeyUnavailable", 0, FALSE), key |-> key]
        ELSE [v |-> VerifyWith(nacl, payload, signature, timestamp, key.ret,
                               tolerance, current_time),
              key |-> key]

(* ------------------------------------------------------------------ *)
(* DynamoDB tables                                                     *)
(* ------------------------------------------------------------------ *)
(* Items carry the attributes the handlers set, without the wall-clock   *)
(* texts (created_at, updated_at, timestamp, date) and the environment   *)
(* name.  Absent marks an attribute the item does not have.              *)
Absent == "<absent>"

ConvItem(phone, text, id, state, source) ==
    [phone_number |-> phone, last_message |-> text, last_message_id |-> id,
     conversation_state |-> state, message_count |-> 1, source |-> source]

NoItem ==
    [phone_number |-> Absent, last_message |-> Absent, last_message_id |-> Absent,
     conversation_state |-> Absent, message_count |-> 0, source |-> Absent]

AuditItem(metric_type, review) ==
    [metric_type |-> metric_type, requires_review |-> review]

\* one put_item call in the trace of an invocation
Write(table, kind, ok) == [table |-> table, kind |-> kind, ok |-> ok]

\* the attribute of a conversation item that identifies it
ConversationKey(item) == item.phone_number

\* the item stored under a phone number (NoItem when there is none)
GetConversation(conv, phone) ==
    IF \E i \in conv : ConversationKey(i) = phone
    THEN CHOOSE i \in conv : ConversationKey(i) = phone
    ELSE NoItem

\* (a variant of PutConversation that adds the item beside the one stored)
PutConversation_Insert(conv, item) == conv \cup {item}

\* (a variant of PutConversation that keeps, for each attribute the new item
\* does not carry, the attribute of the item stored under the same key)
PutConversation_Merge(conv, item) ==
    LET old == GetConversation(conv, ConversationKey(item))
        merged == [a \in DOMAIN item |->
                      IF a # "message_count" /\ old # NoItem /\ item[a] = Absent
                      THEN old[a] ELSE item[a]]
    IN  { i \in conv : ConversationKey(i) # ConversationKey(item) } \cup {merged}

\* table.put_item(Item=item) on the conversations table: the item replaces
\* the one stored under the same key
PutConversation(conv, item) ==
    { i \in conv : ConversationKey(i) # ConversationKey(item) } \cup {item}

\* table.put_item(Item=item) on the analytics table: one more item
PutAnalytics(an, item) == Append(an, item)

(* ------------------------------------------------------------------ *)
(* sms-handler: dispatch                                               *)
(* ------------------------------------------------------------------ *)
\* The outcome of processing: result status, the handler reached, the tables
\* after it and the put_item calls made.
Processed(status, action, conv, an, writes) ==
    [status |-> status, action |-> action, conv |-> conv, an |-> an, writes |-> writes]

\* (a variant of process_message_received that reports a failed write as
\* processed)
process_message_received_Silent(data, conv, an, convOk, metricOk) ==
    LET item == ConvItem(data.phone, data.text, data.id, "active", Absent)
        w1 == Write("conversations", "active", convOk)
        w2 == Write("analytics", "message_received", metricOk)
    IN  IF ~convOk
        THEN Processed("processed", "message_received", conv, an, <<w1>>)
        ELSE Processed("processed", "message_received", PutConversation(conv, item),
                       IF metricOk
                       THEN PutAnalytics(an, AuditItem("message_received", FALSE))
                       ELSE an,
                       <<w1, w2>>)

\* (a variant of process_message_received that writes the metric before the
\* conversation item)
process_message_received_MetricFirst(data, conv, an, convOk, metricOk) ==
    LET item == ConvItem(data.phone, data.text, data.id, "active", Absent)
        metric == AuditItem("message_received", FALSE)
        w1 == Write("conversations", "active", convOk)
        w2 == Write("analytics", "message_received", metricOk)
    IN  IF ~metricOk
        THEN Processed("error", "message_received", conv, an, <<w2>>)
        ELSE IF ~convOk
        THEN Processed("error", "message_received", conv, PutAnalytics(an, metric),
                       <<w2, w1>>)
        ELSE Processed("processed", "message_received", PutConversation(conv, item),
                       PutAnalytics(an, metric), <<w2, w1>>)

\* process_message_received: the conversation item is put first, the metric
\* second; an exception from either put_item ends the handler with status
\* error.
process_message_received(data, conv, an, convOk, metricOk) ==
    LET item == ConvItem(data.phone, data.text, data.id, "active", Absent)
        metric == AuditItem("message_received", FALSE)
        w1 == Write("conversations", "active", convOk)
        w2 == Write("analytics", "message_received", metricOk)
    IN  IF ~convOk
        THEN Processed("error", "message_received", conv, an, <<w1>>)
        ELSE IF ~metricOk
        THEN Processed("error", "message_received", PutConversation(conv, item), an,
                       <<w1, w2>>)
        ELSE Processed("processed", "message_received", PutConversation(conv, item),
                       PutAnalytics(an, metric), <<w1, w2>>)

\* (a variant of process_message_sent that stores a conversation item)
process_message_sent_Store(data, conv, an) ==
    Processed("processed", "message_sent",
              PutConversation(conv, ConvItem(data.phone, data.text, data.id, "active", Absent)),
              an, <<>>)

process_message_sent(data, conv, an) ==
    Processed("processed", "message_sent", conv, an, <<>>)

process_message_delivered(data, conv, an) ==
    Processed("processed", "message_delivered", conv, an, <<>>)

process_message_failed(data, conv, an) ==
    Processed("processed", "message_failed", conv, an, <<>>)

process_telnyx_webhook(webhook_data, conv, an, convOk, metricOk) ==
    IF webhook_data.kind # "object"
    THEN Processed("error", "none", conv, an, <<>>)     \* .get on a non-dict raises
    ELSE CASE webhook_data.event_type = "message.received" ->
                process_message_received(webhook_data, conv, an, convOk, metricOk)
           [] webhook_data.event_type = "message.sent" ->
                process_message_sent(webhook_data, conv, an)
           [] webhook_data.event_type = "message.delivered" ->
                process_message_delivered(webhook_data, conv, an)
           [] webhook_data.event_type = "message.failed" ->
                process_message_failed(webhook_data, conv, an)
           [] OTHER -> Processed("ignored", "none", conv, an, <<>>)

(* ------------------------------------------------------------------ *)
(* sms-handler: lambda_handler                                         *)
(* ------------------------------------------------------------------ *)
Request(signature, timestamp, body) ==
    [signature |-> signature, timestamp |-> timestamp, body |-> body]

\* The record of one invocation: the request, the instant, the response
\* (HTTP status, or the policy effect of an authorizer), the verification
\* result, the key the Secret Cache returned and the secret-store calls
\* made, the processing outcome with its put_item calls, and the
\* "processed" flag of a fallback response.
Invocation(handler, req, status, effect, v, key, out, processed) ==
    [handler |-> handler, req |-> req, at |-> now, status |-> status,
     effect |-> effect,
     verdict |-> v.verdict, cryptoRan |-> v.cryptoRan, cryptoOk |-> v.cryptoOk,
     key |-> key.ret, fetched |-> key.fetched,
     result |-> out.status, action |-> out.action,
     writes |-> out.writes, processed |-> processed]

NotVerified == Verdict(FALSE, "none", 0, FALSE)
NoKey == [ret |-> None, cache |-> None, cts |-> 0, fetched |-> 0]

\* sms-handler lambda_handler as a function of the request, the globals and
\* the collaborators' outcomes: the response status with the verification
\* result, the Secret Cache outcome and the processing outcome.
sms_lambda_handler(req, nacl, cache, cts, current_time, secretString, conv, an, fetchOk, convOk, metricOk) ==
    LET val == validate_telnyx_webhook(req.body, req.signature, req.timestamp,
                                       DEFAULT_TOLERANCE, nacl, cache, cts,
                                       current_time, secretString, fetchOk)
        none == Processed("none", "none", conv, an, <<>>)
    IN  IF ~val.v.ok
        THEN [status |-> 401, v |-> val.v, key |-> val.key, out |-> none]
        ELSE IF req.body.kind \in {"empty", "notjson"}
        THEN [status |-> 400, v |-> val.v, key |-> val.key, out |-> none]
        ELSE IF req.body.kind = "deep"
        THEN [status |-> 500, v |-> val.v, key |-> val.key, out |-> none]
        ELSE [status |-> 200, v |-> val.v, key |-> val.key,
              out |-> process_telnyx_webhook(req.body, conv, an, convOk, metricOk)]

(* ------------------------------------------------------------------ *)
(* telnyx-fallback: lambda_handler                                     *)
(* ------------------------------------------------------------------ *)
\* store_fallback_event: the put_item is tried once; a failure is printed
\* and swallowed.
store_fallback_event(an, auditOk) ==
    [an |-> IF auditOk THEN PutAnalytics(an, AuditItem("fallback_event", TRUE)) ELSE an,
     writes |-> << Write("analytics", "fallback_event", auditOk) >>]

TelnyxEvents == {"message.received", "message.sent", "message.delivered", "message.failed"}

is_valid_telnyx_event(webhook_data) ==
    webhook_data.kind = "object" /\ webhook_data.event_type \in TelnyxEvents

\* (a variant of attempt_fallback_processing that stores the conversation
\* whatever the event type)
attempt_fallback_processing_AnyType(webhook_data, conv, convOk) ==
    LET item == ConvItem(webhook_data.phone, webhook_data.text, Absent,
                         "fallback_processed", "telnyx_fallback")
        w == Write("conversations", "fallback_processed", convOk)
    IN  IF convOk
        THEN [success |-> TRUE, conv |-> PutConversation(conv, item), writes |-> <<w>>]
        ELSE [success |-> FALSE, conv |-> conv, writes |-> <<w>>]

\* (a variant of attempt_fallback_processing that reports success when the
\* put_item raised)
attempt_fallback_processing_Optimistic(webhook_data, conv, convOk) ==
    IF webhook_data.event_type = "message.received"
    THEN LET item == ConvItem(webhook_data.phone, webhook_data.text, Absent,
                              "fallback_processed", "telnyx_fallback")
             w == Write("conversations", "fallback_processed", convOk)
         IN  IF convOk
             THEN [success |-> TRUE, conv |-> PutConversation(conv, item), writes |-> <<w>>]
             ELSE [success |-> TRUE, conv |-> conv, writes |-> <<w>>]
    ELSE [success |-> FALSE, conv |-> conv, writes |-> <<>>]

\* attempt_fallback_processing: success with the table after it and the
\* put_item calls made
attempt_fallback_processing(webhook_data, conv, convOk) ==
    IF webhook_data.event_type = "message.received"
    THEN LET item == ConvItem(webhook_data.phone, webhook_data.text, Absent,
                              "fallback_processed", "telnyx_fallback")
             w == Write("conversations", "fallback_processed", convOk)
         IN  IF convOk
             THEN [success |-> TRUE, conv |-> PutConversation(conv, item), writes |-> <<w>>]
             ELSE [success |-> FALSE, conv |-> conv, writes |-> <<w>>]
    ELSE [success |-> FALSE, conv |-> conv, writes |-> <<>>]

\* log_fallback_error: as store_fallback_event, metric_type fallback_error
log_fallback_error(an, auditOk) ==
    [an |-> IF auditOk THEN PutAnalytics(an, AuditItem("fallback_error", FALSE)) ELSE an,
     writes |-> << Write("analytics", "fallback_error", auditOk) >>]

telnyx_fallback_lambda_handler(req, conv, an, auditOk, convOk) ==
    IF req.body.kind = "deep"
    THEN \* json.loads raises past "except JSONDecodeError": the outer handler
         LET e == log_fallback_error(an, auditOk)
         IN  [status |-> 200, processed |-> FALSE,
              out |-> Processed("error", "none", conv, e.an, e.writes)]
    ELSE LET st == store_fallback_event(an, auditOk)
         IN  IF is_valid_telnyx_event(req.body)
             THEN LET r == attempt_fallback_processing(req.body, conv, convOk)
                  IN  [status |-> 200, processed |-> r.success,
                       out |-> Processed(IF r.success THEN "processed" ELSE "logged",
                                         "fallback", r.conv, st.an,
                                         st.writes \o r.writes)]
             ELSE [status |-> 200, processed |-> FALSE,
                   out |-> Processed("logged", "none", conv, st.an, st.writes)]

\* The JSON body of the response lambda_handler returns for each outcome:
\* processed ("processed": True), logged ("processed": False,
\* "requires_manual_review": True) and the outer except ("error": True).
\* "absent" is a key the body does not have.
telnyx_fallback_response(result) ==
    CASE result = "processed" ->
            [processed |-> "true", requires_manual_review |-> "absent", error |-> "absent"]
      [] result = "logged" ->
            [processed |-> "false", requires_manual_review |-> "true", error |-> "absent"]
      [] OTHER ->
            [processed |-> "absent", requires_manual_review |-> "absent", error |-> "true"]

(* ------------------------------------------------------------------ *)
(* fallback: handler (the function the API Gateway construct deploys)   *)
(* ------------------------------------------------------------------ *)
\* log_failed_request: the put_item is tried once; a failure is logged and
\* swallowed.  The item has no metric_type and no requires_review.
log_failed_request(an, auditOk) ==
    [an |-> IF auditOk THEN PutAnalytics(an, AuditItem("webhook_fallback", FALSE)) ELSE an,
     writes |-> << Write("analytics", "webhook_fallback", auditOk) >>]

fallback_handler(req, conv, an, auditOk) ==
    IF req.body.kind = "deep"
    THEN \* json.loads raises past "except json.JSONDecodeError"
         [status |-> 500, processed |-> FALSE,
          out |-> Processed("error", "none", conv, an, <<>>)]
    ELSE LET l == log_failed_request(an, auditOk)
         IN  [status |-> 200, processed |-> FALSE,
              out |-> Processed("logged", "none", conv, l.an, l.writes)]

(* ------------------------------------------------------------------ *)
(* telnyx-authorizer: lambda_handler                                   *)
(* ------------------------------------------------------------------ *)
\* validate_timestamp: the verdict of the replay check
validate_timestamp(timestamp, current_time) ==
    IF timestamp.kind # "int"
    THEN Verdict(FALSE, "MalformedHeader", 0, FALSE)         \* int() raises ValueError
    ELSE LET age == current_time - timestamp.v
         IN  IF age > AUTH_TOLERANCE
             THEN Verdict(FALSE, "ExpiredTimestamp", 0, FALSE)
             ELSE IF age < -AUTH_FUTURE_SKEW
             THEN Verdict(FALSE, "FutureTimestamp", 0, FALSE)
             ELSE Verdict(TRUE, "Valid", 0, FALSE)

verify_with_cryptography_eddsa(payload, signature, timestamp, public_key) ==
    IF SigLen(signature) < 0
    THEN Verdict(FALSE, "InvalidSignature", 0, FALSE)        \* b64decode raises
    ELSE IF KeyLen(public_key) # PUBLIC_KEY_BYTES
    THEN Verdict(FALSE, "InvalidSignature", 0, FALSE)        \* from_public_bytes raises
    ELSE IF ~Ed25519Verify(public_key, timestamp, payload, signature)
    THEN Verdict(FALSE, "InvalidSignature", 1, FALSE)
    ELSE Verdict(TRUE, "Valid", 1, TRUE)

verify_basic_format_eddsa(signature, public_key) ==
    IF SigLen(signature) # SIGNATURE_BYTES \/ KeyLen(public_key) # PUBLIC_KEY_BYTES
    THEN Verdict(FALSE, "InvalidSignature", 0, FALSE)
    ELSE Verdict(TRUE, "Valid", 0, FALSE)

verify_telnyx_signature(crypto, payload, signature, timestamp, public_key) ==
    IF crypto
    THEN verify_with_cryptography_eddsa(payload, signature, timestamp, public_key)
    ELSE verify_basic_format_eddsa(signature, public_key)

\* lambda_handler: the policy effect with the verification result and the
\* Secret Cache outcome
authorizer_lambda_handler(req, crypto, cache, cts, current_time, secretString, fetchOk) ==
    LET key == auth_get_public_key_from_secrets(cache, cts, current_time,
                                                secretString, fetchOk)
        tsv == validate_timestamp(req.timestamp, current_time)
        sv == verify_telnyx_signature(crypto, req.body, req.signature,
                                      req.timestamp, key.ret)
    IN  IF ~Truthy(key.ret)
        THEN [effect |-> "Deny", v |-> Verdict(FALSE, "KeyUnavailable", 0, FALSE), key |-> key]
        ELSE IF req.signature.kind = "empty" \/ req.timestamp.kind = "empty"
        THEN [effect |-> "Deny", v |-> Verdict(FALSE, "MalformedHeader", 0, FALSE), key |-> key]
        ELSE IF ~tsv.ok
        THEN [effect |-> "Deny", v |-> tsv, key |-> key]
        ELSE [effect |-> IF sv.ok THEN "Allow" ELSE "Deny", v |-> sv, key |-> key]

(* ------------------------------------------------------------------ *)
(* authorizer: handler (the function the API Gateway construct deploys  *)
(* as the request authorizer)                                          *)
(* ------------------------------------------------------------------ *)
\* The event's headers: the two Telnyx headers of the request and the two
\* headers the handler looks up.  None is a header that was not sent.
GateRequest(req, x_telnyx_signature, authorization) ==
    [signature |-> req.signature, timestamp |-> req.timestamp, body |-> req.body,
     x_telnyx_signature |-> x_telnyx_signature, authorization |-> authorization]

\* handler: Allow when either looked-up header has a non-empty value
authorizer_handler(event) ==
    IF Truthy(event.x_telnyx_signature) \/ Truthy(event.authorization)
    THEN "Allow"
    ELSE "Deny"

(* ------------------------------------------------------------------ *)
(* Inputs                                                              *)
(* ------------------------------------------------------------------ *)
\* ages (seconds before the current instant) of the integer timestamps sent
Ages == {-61, -60, 0, 300, 301, 600}

Timestamps(current_time) ==
    {TsEmpty, TsText} \cup { TsInt(current_time - a) : a \in Ages }

\* signatures sent with a timestamp and a body: none, undecodable, too short,
\* the provider's, one made with another key, one made over another body
Signatures(ts, body) ==
    { SigEmpty, SigNotB64, SigShort,
      Sign("K1", ts, body), Sign("K2", ts, body), Sign("K1", ts, OtherBody(body)) }

\* the body sent with every combination of headers
MainBody == Event("message.received", "+15551234567", "hi", "m1")

\* Every header combination with MainBody, and every body with a current
\* timestamp and a 64-byte signature.
Requests(current_time) ==
    UNION { { Request(sg, ts, b) : sg \in Signatures(ts, b) } :
            ts \in Timestamps(current_time), b \in {MainBody} }
    \cup
    UNION { { Request(sg, TsInt(current_time), b) :
              sg \in Signatures(TsInt(current_time), b) \ {SigEmpty, SigNotB64, SigShort} } :
            b \in Bodies }

\* What reaches a fallback handler: every body, after a denial for missing
\* headers or after a failure behind valid headers.
FallbackRequests(current_time) ==
    { Request(SigEmpty, TsEmpty, b) : b \in Bodies }
    \cup { Request(Sign("K1", TsInt(current_time), b), TsInt(current_time), b) : b \in Bodies }

Callers == 1..NCallers

(* ------------------------------------------------------------------ *)
(* Initial state: the modules as loaded, the tables empty              *)
(* ------------------------------------------------------------------ *)
StartTime == 1000

NoInvocation ==
    [handler |-> "none", req |-> Request(SigEmpty, TsEmpty, BodyEmpty), at |-> StartTime,
     status |-> 0, effect |-> "none",
     verdict |-> "none", cryptoRan |-> 0, cryptoOk |-> FALSE,
     key |-> None, fetched |-> 0, result |-> "none", action |-> "none",
     writes |-> <<>>, processed |-> FALSE]

\* Everything but the two import outcomes.
Loaded ==
    /\ now = StartTime
    /\ ticks = 0
    /\ secret = <<"K1">>
    /\ public_key_cache = None
    /\ cache_timestamp = 0
    /\ auth_key_cache = None
    /\ auth_cache_timestamp = 0
    /\ conversations = {}
    /\ analytics = <<>>
    /\ last = NoInvocation
    /\ keyCalls = <<>>
    /\ pc = [c \in Callers |-> "idle"]
    /\ local = [c \in Callers |-> [current_time |-> 0, public_key |-> None, read_at |-> 0]]
    /\ fetches = 0
    /\ key_read_at = 0

\* sms-handler deployed with or without PyNaCl in its package
Init == Loaded /\ NACL_AVAILABLE \in BOOLEAN /\ CRYPTO_AVAILABLE = TRUE

\* telnyx-authorizer deployed with or without cryptography in its package
InitGate == Loaded /\ NACL_AVAILABLE = TRUE /\ CRYPTO_AVAILABLE \in BOOLEAN

concVars == << pc, local, fetches, key_read_at >>
authVars == << CRYPTO_AVAILABLE, auth_key_cache, auth_cache_timestamp >>
smsVars == << NACL_AVAILABLE, public_key_cache, cache_timestamp >>
tables == << conversations, analytics >>
clock == << now, ticks >>

\* no invocation is in progress
Idle == last.handler = "none"

(* ------------------------------------------------------------------ *)
(* Environment                                                         *)
(* ------------------------------------------------------------------ *)
\* the clock advances
Tick ==
    /\ Idle
    /\ ticks < MaxTicks
    /\ \E d \in {1, CACHE_TTL - 1} : now' = now + d
    /\ ticks' = ticks + 1
    /\ UNCHANGED << secret, smsVars, authVars, tables, last, keyCalls, concVars >>

\* the operator stores another SecretString
RotateSecret ==
    /\ Idle
    /\ \E sv \in SecretValues \ {secret} : secret' = sv
    /\ UNCHANGED << clock, smsVars, authVars, tables, last, keyCalls, concVars >>

\* the response has been delivered: the invocation is over
Return ==
    /\ ~Idle
    /\ last' = NoInvocation
    /\ UNCHANGED << clock, secret, smsVars, authVars, tables, keyCalls, concVars >>

(* ------------------------------------------------------------------ *)
(* Invocations (a Lambda instance runs one invocation to completion)   *)
(* ------------------------------------------------------------------ *)
SmsHandler ==
    /\ Idle
    /\ \E req \in Requests(now), fetchOk, convOk, metricOk \in BOOLEAN :
        LET r == sms_lambda_handler(req, NACL_AVAILABLE, public_key_cache,
                                    cache_timestamp, now, secret, conversations,
                                    analytics, fetchOk, convOk, metricOk)
        IN  /\ Len(r.out.an) <= MaxAudit
            /\ public_key_cache' = r.key.cache
            /\ cache_timestamp' = r.key.cts
            /\ conversations' = r.out.conv
            /\ analytics' = r.out.an
            /\ last' = Invocation("sms-handler", req, r.status, "none", r.v,
                                  r.key, r.out, FALSE)
            /\ UNCHANGED << clock, secret, NACL_AVAILABLE, authVars, keyCalls, concVars >>

TelnyxFallback ==
    /\ Idle
    /\ \E req \in FallbackRequests(now), auditOk, convOk \in BOOLEAN :
        LET r == telnyx_fallback_lambda_handler(req, conversations, analytics,
                                                auditOk, convOk)
        IN  /\ Len(r.out.an) <= MaxAudit
            /\ conversations' = r.out.conv
            /\ analytics' = r.out.an
            /\ last' = Invocation("telnyx-fallback", req, r.status, "none",
                                  NotVerified, NoKey, r.out, r.processed)
            /\ UNCHANGED << clock, secret, smsVars, authVars, keyCalls, concVars >>

Fallback ==
    /\ Idle
    /\ \E req \in FallbackRequests(now), auditOk \in BOOLEAN :
        LET r == fallback_handler(req, conversations, analytics, auditOk)
        IN  /\ Len(r.out.an) <= MaxAudit
            /\ conversations' = r.out.conv
            /\ analytics' = r.out.an
            /\ last' = Invocation("fallback", req, r.status, "none",
                                  NotVerified, NoKey, r.out, r.processed)
            /\ UNCHANGED << clock, secret, smsVars, authVars, keyCalls, concVars >>

TelnyxAuthorizer ==
    /\ Idle
    /\ \E req \in Requests(now), fetchOk \in BOOLEAN :
        LET r == authorizer_lambda_handler(req, CRYPTO_AVAILABLE, auth_key_cache,
                                           auth_cache_timestamp, now, secret, fetchOk)
        IN  /\ auth_key_cache' = r.key.cache
            /\ auth_cache_timestamp' = r.key.cts
            /\ last' = Invocation("telnyx-authorizer", req, 0, r.effect, r.v, r.key,
                                  Processed("none", "none", conversations, analytics, <<>>),
                                  FALSE)
            /\ UNCHANGED << clock, secret, smsVars, CRYPTO_AVAILABLE, tables,
                            keyCalls, concVars >>

(* ------------------------------------------------------------------ *)
(* The Event Processor and the fallback handlers on the shared tables  *)
(* ------------------------------------------------------------------ *)
Next ==
    \/ RotateSecret
    \/ SmsHandler
    \/ TelnyxFallback
    \/ Fallback
    \/ Return

Spec == Init /\ [][Next]_vars

(* ------------------------------------------------------------------ *)
(* The authorizer in front of them                                     *)
(* ------------------------------------------------------------------ *)
NextGate ==
    \/ Tick
    \/ RotateSecret
    \/ TelnyxAuthorizer
    \/ Return

SpecGate == InitGate /\ [][NextGate]_vars

(* ------------------------------------------------------------------ *)
(* The verifier functions applied to drawn inputs                      *)
(* ------------------------------------------------------------------ *)
NoOutcome == Processed("none", "none", conversations, analytics, <<>>)

\* The deployed request authorizer
\* values of a looked-up header: not sent, sent empty, sent with a value
HeaderValues == { None, EmptyStr, <<"v">> }

\* the requests of the handlers, and one validly signed over an hour ago,
\* with every combination of the two looked-up headers
GateRequests(current_time) ==
    { GateRequest(r, x, a) :
        r \in Requests(current_time)
               \cup { Request(Sign("K1", TsInt(current_time - 3601), MainBody),
                              TsInt(current_time - 3601), MainBody) },
        x \in HeaderValues, a \in HeaderValues }

Authorizer ==
    /\ Idle
    /\ \E event \in GateRequests(now) :
        last' = Invocation("authorizer", event, 0, authorizer_handler(event),
                           NotVerified, NoKey, NoOutcome, FALSE)
    /\ UNCHANGED << clock, secret, smsVars, authVars, tables, keyCalls, concVars >>

NextFrontDoor ==
    \/ Tick
    \/ Authorizer
    \/ Return

SpecFrontDoor == Init /\ [][NextFrontDoor]_vars

\* public keys a verifier is handed: what the Secret Cache can return
PublicKeys == { strip(sv) : sv \in SecretValues } \ {EmptyStr}

VerifyWithNacl ==
    /\ Idle
    /\ \E req \in Requests(now), public_key \in PublicKeys :
        LET v == verify_with_nacl(req.body, req.signature, req.timestamp, public_key,
                                  DEFAULT_TOLERANCE, now)
        IN  /\ req.signature.kind # "empty" /\ req.timestamp.kind # "empty"
            /\ last' = Invocation("verify_with_nacl", req, 0, "none", v,
                                  [ret |-> public_key, fetched |-> 0], NoOutcome, FALSE)
    /\ UNCHANGED << clock, secret, smsVars, authVars, tables, keyCalls, concVars >>

ValidateTimestamp ==
    /\ Idle
    /\ \E req \in Requests(now) :
        LET v == validate_timestamp(req.timestamp, now)
        IN  /\ req.timestamp.kind # "empty"
            /\ last' = Invocation("validate_timestamp", req, 0, "none", v,
                                  [ret |-> None, fetched |-> 0], NoOutcome, FALSE)
    /\ UNCHANGED << clock, secret, smsVars, authVars, tables, keyCalls, concVars >>

NextVerify ==
    \/ VerifyWithNacl
    \/ ValidateTimestamp
    \/ Return

SpecVerify == Init /\ [][NextVerify]_vars

(* ------------------------------------------------------------------ *)
(* The Secret Cache called in sequence while the clock runs; a run      *)
(* follows the instance of one of the two Lambdas.                     *)
(* ------------------------------------------------------------------ *)
\* One call: the function called, the instant, the SecretString in the
\* store, the globals before it, the value returned, the get_secret_value
\* calls made and the globals after it.
KeyCall(fn, current_time, cache0, cts0, r) ==
    [fn |-> fn, at |-> current_time, secret |-> secret,
     cache0 |-> cache0, cts0 |-> cts0,
     ret |-> r.ret, fetched |-> r.fetched, cache |-> r.cache, cts |-> r.cts]

\* the last two calls
LastTwo(calls) == IF Len(calls) > 2 THEN Tail(calls) ELSE calls

\* sms-handler: get_public_key_from_secrets()
GetKey ==
    /\ \A i \in DOMAIN keyCalls : keyCalls[i].fn = "sms-handler"
    /\ \E fetchOk \in BOOLEAN :
        LET r == get_public_key_from_secrets(public_key_cache, cache_timestamp, now,
                                             secret, fetchOk)
        IN  /\ public_key_cache' = r.cache
            /\ cache_timestamp' = r.cts
            /\ keyCalls' = LastTwo(Append(keyCalls,
                                KeyCall("sms-handler", now, public_key_cache,
                                        cache_timestamp, r)))
    /\ UNCHANGED << clock, secret, NACL_AVAILABLE, authVars, tables, last, concVars >>

\* telnyx-authorizer: get_public_key_from_secrets()
AuthGetKey ==
    /\ \A i \in DOMAIN keyCalls : keyCalls[i].fn = "telnyx-authorizer"
    /\ \E fetchOk \in BOOLEAN :
        LET r == auth_get_public_key_from_secrets(auth_key_cache, auth_cache_timestamp,
                                                  now, secret, fetchOk)
        IN  /\ auth_key_cache' = r.cache
            /\ auth_cache_timestamp' = r.cts
            /\ keyCalls' = LastTwo(Append(keyCalls,
                                KeyCall("telnyx-authorizer", now, auth_key_cache,
                                        auth_cache_timestamp, r)))
    /\ UNCHANGED << clock, secret, smsVars, CRYPTO_AVAILABLE, tables, last, concVars >>

NextCache ==
    \/ Tick
    \/ RotateSecret
    \/ GetKey
    \/ AuthGetKey

SpecCache == Init /\ [][NextCache]_vars

(* ------------------------------------------------------------------ *)
(* validate_telnyx_webhook called request after request while the       *)
(* clock runs and the secret changes                                   *)
(* ------------------------------------------------------------------ *)
\* the requests validated: signed by the provider or with another key, fresh
\* or expired, with and without the two headers
ValidateRequests(current_time) ==
    { r \in Requests(current_time) :
        /\ r.body = MainBody
        /\ r.signature.kind \in {"empty", "sig"}
        /\ r.signature.kind = "sig" => r.signature.body = MainBody
        /\ r.timestamp \in {TsEmpty, TsInt(current_time), TsInt(current_time - 301)} }

ValidateWebhook ==
    /\ Idle
    /\ \E req \in ValidateRequests(now), fetchOk \in BOOLEAN :
        LET r == validate_telnyx_webhook(req.body, req.signature, req.timestamp,
                                         DEFAULT_TOLERANCE, NACL_AVAILABLE,
                                         public_key_cache, cache_timestamp, now,
                                         secret, fetchOk)
            called == req.signature.kind # "empty" /\ req.timestamp.kind # "empty"
        IN  /\ public_key_cache' = r.key.cache
            /\ cache_timestamp' = r.key.cts
            /\ last' = Invocation("validate_telnyx_webhook", req, 0, "none", r.v,
                                  r.key, NoOutcome, FALSE)
            /\ keyCalls' = IF called
                           THEN LastTwo(Append(keyCalls,
                                    KeyCall("sms-handler", now, public_key_cache,
                                            cache_timestamp, r.key)))
                           ELSE keyCalls
    /\ UNCHANGED << clock, secret, NACL_AVAILABLE, authVars, tables, concVars >>

NextValidate ==
    \/ Tick
    \/ RotateSecret
    \/ ValidateWebhook
    \/ Return

SpecValidate == Init /\ [][NextValidate]_vars

(* ------------------------------------------------------------------ *)
(* get_public_key_from_secrets entered by several callers at once,     *)
(* statement by statement                                              *)
(* ------------------------------------------------------------------ *)
Goto(c, label) == pc' = [pc EXCEPT ![c] = label]

\* current_time = time.time()
ReadClock(c) ==
    /\ pc[c] = "idle"
    /\ local' = [local EXCEPT ![c].current_time = now]
    /\ Goto(c, "check_key")
    /\ UNCHANGED << clock, secret, smsVars, authVars, tables, last, keyCalls, fetches, key_read_at >>

\* "if _public_key_cache and ...": the left operand
CheckKey(c) ==
    /\ pc[c] = "check_key"
    /\ Goto(c, IF Truthy(public_key_cache) THEN "check_ts" ELSE "call")
    /\ UNCHANGED << clock, secret, smsVars, authVars, tables, last, keyCalls, local, fetches, key_read_at >>

\* "... (current_time - _cache_timestamp) < CACHE_TTL": the right operand
CheckTimestamp(c) ==
    /\ pc[c] = "check_ts"
    /\ Goto(c, IF (local[c].current_time - cache_timestamp) < CACHE_TTL
                THEN "return_cached" ELSE "call")
    /\ UNCHANGED << clock, secret, smsVars, authVars, tables, last, keyCalls, local, fetches, key_read_at >>

\* return _public_key_cache
ReturnCached(c) ==
    /\ pc[c] = "return_cached"
    /\ local' = [local EXCEPT ![c].public_key = public_key_cache]
    /\ Goto(c, "done")
    /\ UNCHANGED << clock, secret, smsVars, authVars, tables, last, keyCalls, fetches, key_read_at >>

\* secrets_client.get_secret_value(...) is sent
CallSecretStore(c) ==
    /\ pc[c] = "call"
    /\ fetches' = fetches + 1
    /\ Goto(c, "fetching")
    /\ UNCHANGED << clock, secret, smsVars, authVars, tables, last, keyCalls, local, key_read_at >>

\* it returns the SecretString (public_key = ....strip()) or raises
\* (return None)
SecretStoreReplies(c) ==
    /\ pc[c] = "fetching"
    /\ \E fetchOk \in BOOLEAN :
          IF fetchOk
          THEN local' = [local EXCEPT ![c].public_key = strip(secret), ![c].read_at = now]
               /\ Goto(c, "store_key")
          ELSE local' = [local EXCEPT ![c].public_key = None]
               /\ Goto(c, "done")
    /\ UNCHANGED << clock, secret, smsVars, authVars, tables, last, keyCalls, fetches, key_read_at >>

\* _public_key_cache = public_key
StoreKey(c) ==
    /\ pc[c] = "store_key"
    /\ public_key_cache' = local[c].public_key
    /\ key_read_at' = local[c].read_at
    /\ Goto(c, "store_ts")
    /\ UNCHANGED << clock, secret, NACL_AVAILABLE, cache_timestamp, authVars, tables,
                    last, keyCalls, local, fetches >>

\* _cache_timestamp = current_time; return public_key
StoreTimestamp(c) ==
    /\ pc[c] = "store_ts"
    /\ cache_timestamp' = local[c].current_time
    /\ Goto(c, "done")
    /\ UNCHANGED << clock, secret, NACL_AVAILABLE, public_key_cache, authVars, tables,
                    last, keyCalls, local, fetches, key_read_at >>

NextConc ==
    \/ Tick
    \/ RotateSecret
    \/ \E c \in Callers :
          \/ ReadClock(c)
          \/ CheckKey(c)
          \/ CheckTimestamp(c)
          \/ ReturnCached(c)
          \/ CallSecretStore(c)
          \/ SecretStoreReplies(c)
          \/ StoreKey(c)
          \/ StoreTimestamp(c)

SpecConc == Init /\ [][NextConc]_vars

(* ================================================================== *)
(* Properties                                                          *)
(* ================================================================== *)
\* The verdict the specified verifier gives a request checked at instant at
\* with the key the Secret Cache returned: malformed headers first, then the
\* key, then the signature, then the freshness window (300 s back, 60 s ahead).
SpecVerdict(req, key, at) ==
    IF req.signature.kind = "empty" \/ req.timestamp.kind # "int"
    THEN "MalformedHeader"
    ELSE IF ~Truthy(key)
    THEN "KeyUnavailable"
    ELSE IF ~Ed25519Verify(key, req.timestamp, req.body, req.signature)
    THEN "InvalidSignature"
    ELSE IF at - req.timestamp.v > 300
    THEN "ExpiredTimestamp"
    ELSE IF req.timestamp.v - at > 60
    THEN "FutureTimestamp"
    ELSE "Valid"

\* the signature of the invocation's request verifies, with the key the
\* Secret Cache returned, over timestamp|body
SignatureVerifies ==
    Ed25519Verify(last.key, last.req.timestamp, last.req.body, last.req.signature)

\* age of the request's timestamp at the instant of the invocation
AgeOfRequest == last.at - last.req.timestamp.v

\* put_item calls of the invocation that stored an item in a table
Stored(table) ==
    { i \in 1..Len(last.writes) : last.writes[i].table = table /\ last.writes[i].ok }

\* C1: in every configuration of the SMS handler, business logic (dispatch
\* and its table writes) has run for a request only if the Ed25519
\* verification of that request's signature over timestamp|body with the
\* cached public key succeeded.
C1_DispatchOnlyAfterEd25519 ==
    (last.handler = "sms-handler" /\ last.result # "none")
        => (last.cryptoOk /\ SignatureVerifies)

\* C2: a request whose verification verdict is not Valid gets status 401 from
\* the SMS handler, and no put_item is made on either table.
C2_NonValidIs401AndWritesNothing ==
    (last.handler = "sms-handler"
     /\ SpecVerdict(last.req, last.key, last.at) # "Valid")
        => (last.status = 401 /\ last.writes = <<>>)

\* C3: every invocation of a fallback handler answers with status 200.
C3_FallbackAlways200 ==
    last.handler \in {"telnyx-fallback", "fallback"} => last.status = 200

\* C4: whenever the telnyx-fallback handler has responded, its first put_item
\* stored the fallback_event item (requires_review = true) in the analytics
\* table, ahead of any put_item on the conversations table.
C4_AuditStoredFirst ==
    last.handler = "telnyx-fallback"
        => /\ Len(last.writes) >= 1
           /\ last.writes[1] = Write("analytics", "fallback_event", TRUE)
           /\ AuditItem("fallback_event", TRUE) \in { analytics[i] : i \in DOMAIN analytics }

\* C5: every request handled by the SMS handler or a fallback handler runs at
\* most one Ed25519 verification and stores at most one item in the analytics
\* table, and exactly one when the response is the final 200.
C5_ExactlyOneAuditRecord ==
    last.handler \in {"sms-handler", "telnyx-fallback", "fallback"}
        => /\ last.cryptoRan <= 1
           /\ Cardinality(Stored("analytics")) <= 1
           /\ last.status = 200 => Cardinality(Stored("analytics")) = 1

\* C6: a request with a present but cryptographically invalid signature and an
\* integer timestamp outside the freshness window is rejected by the
\* authorizer as InvalidSignature, never as a timestamp failure.
C6_CryptoFailureBeforeTimestamp ==
    (/\ last.handler = "telnyx-authorizer"
     /\ Truthy(last.key)
     /\ last.req.signature.kind # "empty"
     /\ last.req.timestamp.kind = "int"
     /\ ~SignatureVerifies
     /\ (AgeOfRequest > 300 \/ AgeOfRequest < -60))
        => last.verdict = "InvalidSignature"

\* C7: for a cryptographically valid triple with an integer timestamp,
\* verify_with_nacl rejects as ExpiredTimestamp exactly when the age of the
\* timestamp exceeds 300 seconds, and accepts an age of exactly 300; the
\* authorizer's validate_timestamp draws the same line.
C7_ExpiredExactlyBeyondTolerance ==
    /\ (/\ last.handler = "verify_with_nacl"
        /\ last.req.timestamp.kind = "int"
        /\ SignatureVerifies)
           => /\ (last.verdict = "ExpiredTimestamp" <=> AgeOfRequest > 300)
              /\ (AgeOfRequest = 300 => last.verdict = "Valid")
    /\ (/\ last.handler = "validate_timestamp"
        /\ last.req.timestamp.kind = "int")
           => /\ (last.verdict = "ExpiredTimestamp" <=> AgeOfRequest > 300)
              /\ (AgeOfRequest = 300 => last.verdict = "Valid")

\* a validly signed triple exactly 300 seconds old, accepted by verify_with_nacl
C7_Witness ==
    /\ last.handler = "verify_with_nacl"
    /\ last.req.timestamp.kind = "int"
    /\ SignatureVerifies
    /\ AgeOfRequest = 300
    /\ last.verdict = "Valid"

\* C8: a validly signed request whose timestamp is more than 60 seconds ahead
\* of the clock is rejected by the SMS handler as FutureTimestamp: status 401,
\* nothing dispatched.
C8_FutureTimestampRejected ==
    (/\ last.handler = "sms-handler"
     /\ last.req.timestamp.kind = "int"
     /\ SignatureVerifies
     /\ last.req.timestamp.v - last.at > 60)
        => (last.verdict = "FutureTimestamp" /\ last.status = 401 /\ last.result = "none")

\* the cache entry of call c was non-empty and younger than 300 seconds
FreshEntry(c) == Truthy(c.cache0) /\ c.at - c.cts0 < 300

\* the text the function caches for a SecretString: sms-handler strips it
Cached(c) == IF c.fn = "sms-handler" THEN strip(c.secret) ELSE c.secret

\* C9, every call taken alike: a call made less than 300 seconds after fetched_at returns
\* the cached key without a fetch; two sequential calls within 300 seconds of
\* each other make at most one fetch between them; a call 300 seconds or more
\* after fetched_at fetches, replaces the entry and returns the new value.
C9_AsStated ==
    /\ \A i \in DOMAIN keyCalls :
          LET c == keyCalls[i]
          IN  IF c.at - c.cts0 < 300
              THEN c.fetched = 0 /\ c.ret = c.cache0
              ELSE /\ c.fetched = 1
                   /\ c.ret # None => (c.ret = Cached(c) /\ c.cache = c.ret /\ c.cts = c.at)
    /\ (Len(keyCalls) = 2 /\ keyCalls[2].at - keyCalls[1].at < 300)
          => keyCalls[1].fetched + keyCalls[2].fetched <= 1

\* C9, for entries that hold a key: a call finding a non-empty entry younger than 300 seconds
\* returns it, makes no fetch and leaves the entry alone; every other call
\* makes exactly one fetch and either fails (returns None, entry unchanged) or
\* stores the fetched text with fetched_at = now and returns it; two
\* sequential calls within 300 seconds of each other make at most one fetch
\* between them when the first returned a non-empty key.
C9_CacheWithinTTL ==
    /\ \A i \in DOMAIN keyCalls :
          LET c == keyCalls[i]
          IN  IF FreshEntry(c)
              THEN c.fetched = 0 /\ c.ret = c.cache0 /\ c.cache = c.cache0 /\ c.cts = c.cts0
              ELSE /\ c.fetched = 1
                   /\ \/ c.ret = None /\ c.cache = c.cache0 /\ c.cts = c.cts0
                      \/ c.ret = Cached(c) /\ c.cache = c.ret /\ c.cts = c.at
    /\ (/\ Len(keyCalls) = 2
        /\ Truthy(keyCalls[1].ret)
        /\ keyCalls[2].at - keyCalls[1].at < 300)
          => keyCalls[1].fetched + keyCalls[2].fetched <= 1

\* a fetch that returned a key, then a call 299 seconds later served from
\* the cache
C9_Witness ==
    /\ Len(keyCalls) = 2
    /\ keyCalls[1].fetched = 1
    /\ Truthy(keyCalls[1].ret)
    /\ keyCalls[2].at - keyCalls[1].at = 299
    /\ keyCalls[2].fetched = 0
    /\ keyCalls[2].ret = keyCalls[1].ret

\* callers whose get_secret_value call is in flight
InFlight == { c \in Callers : pc[c] = "fetching" }

\* C10: single-flight: of the callers that enter get_public_key_from_secrets
\* together on an empty or expired cache, only one contacts the secret store;
\* no two get_secret_value calls are ever in flight at once.
C10_SingleFlight == Cardinality(InFlight) <= 1

\* the Secret Cache call made by the validation in progress
ThisKeyCall == keyCalls[Len(keyCalls)]

\* the validation in progress called the Secret Cache
KeyWasAsked ==
    /\ last.handler = "validate_telnyx_webhook"
    /\ last.req.signature.kind # "empty" /\ last.req.timestamp.kind # "empty"
    /\ Len(keyCalls) >= 1

\* C11: fail closed: when the cached key has reached the TTL, a key is
\* returned only if it was fetched in this very call; when the fetch fails
\* nothing is returned, the entry is left as it was, and the request being
\* validated is rejected as KeyUnavailable without any verification.
C11_FailClosed ==
    KeyWasAsked =>
        LET c == ThisKeyCall
        IN  (Truthy(c.cache0) /\ c.at - c.cts0 >= 300)
               => /\ c.fetched = 1
                  /\ c.ret # None => (c.ret = strip(c.secret) /\ c.cts = c.at)
                  /\ c.ret = None => /\ ~last.cryptoOk /\ last.cryptoRan = 0
                                      /\ last.verdict = "KeyUnavailable"
                                      /\ c.cache = c.cache0 /\ c.cts = c.cts0

\* an expired K1 entry, the secret rotated to K2, the fetch failing: a
\* request validly signed with K1 is rejected as KeyUnavailable
C11_Witness ==
    /\ KeyWasAsked
    /\ ThisKeyCall.cache0 = <<"K1">>
    /\ ThisKeyCall.at - ThisKeyCall.cts0 >= 300
    /\ ThisKeyCall.fetched = 1
    /\ ThisKeyCall.ret = None
    /\ last.req.timestamp.kind = "int"
    /\ Ed25519Verify(<<"K1">>, last.req.timestamp, last.req.body, last.req.signature)
    /\ last.verdict = "KeyUnavailable"

\* a SecretString that is empty or holds only whitespace
Blank(s) == \A i \in DOMAIN s : s[i] = WS

\* the call fetched a blank SecretString
FetchedBlank(c) == c.fetched = 1 /\ c.ret # None /\ Blank(c.secret)

\* C12: when the secret store returns an empty or whitespace-only value, the
\* value is never used as a verification key: the request being validated is
\* rejected as KeyUnavailable with no verification run, the entry left behind
\* is empty, and the next call fetches again even within the TTL.
C12_EmptySecretIsUnavailable ==
    /\ (KeyWasAsked /\ FetchedBlank(ThisKeyCall))
          => /\ ~Truthy(ThisKeyCall.ret)
             /\ ~Truthy(ThisKeyCall.cache)
             /\ last.verdict = "KeyUnavailable"
             /\ last.cryptoRan = 0 /\ ~last.cryptoOk
    /\ (Len(keyCalls) = 2 /\ FetchedBlank(keyCalls[1]))
          => keyCalls[2].fetched = 1

\* a whitespace-only secret was fetched, and the call made within the TTL
\* after the secret was repaired fetched again and returned the key
C12_Witness ==
    /\ Len(keyCalls) = 2
    /\ FetchedBlank(keyCalls[1])
    /\ keyCalls[1].secret = <<WS>>
    /\ keyCalls[2].at - keyCalls[1].at < 300
    /\ keyCalls[2].fetched = 1
    /\ keyCalls[2].ret = <<"K1">>

\* C13: a request without the telnyx-signature-ed25519 header is denied by
\* the request authorizer, whatever other headers it carries.
C13_DenyWithoutSignatureHeader ==
    (last.handler \in {"authorizer", "telnyx-authorizer"}
     /\ last.req.signature.kind = "empty")
        => last.effect = "Deny"

\* the decision telnyx-authorizer gives the headers of the invocation in
\* progress when it is asked again at this instant with body b, while the
\* secret store holds sv and answers (ok) or fails
DecisionAgain(b, sv, ok) ==
    authorizer_lambda_handler(Request(last.req.signature, last.req.timestamp, b),
                              CRYPTO_AVAILABLE, auth_key_cache, auth_cache_timestamp,
                              now, sv, ok).effect

\* C14: an evaluation of the authorizer contacts no secret store, changes no
\* cache entry and runs no Ed25519 verification, and a second evaluation of
\* the same headers gives the same decision whatever the body, the secret
\* held by the store and the store's availability.
C14_GateIsPureFunctionOfHeaders ==
    last.handler = "telnyx-authorizer"
        => /\ last.fetched = 0
           /\ last.cryptoRan = 0
           /\ \A b \in Bodies, sv \in SecretValues, ok \in BOOLEAN :
                 DecisionAgain(b, sv, ok) = last.effect

\* C15: the authorizer's timestamp check denies exactly the requests older
\* than one hour: a request with the required headers and a valid signature
\* whose timestamp is between 300 and 3600 seconds old is allowed, and one
\* older than 3600 seconds is denied.
C15_GateDeniesOnlyBeyondOneHour ==
    (/\ last.handler \in {"telnyx-authorizer", "authorizer"}
     /\ last.effect # "none"
     /\ last.req.signature.kind = "sig"
     /\ last.req.timestamp.kind = "int"
     /\ Ed25519Verify(<<"K1">>, last.req.timestamp, last.req.body, last.req.signature)
     /\ last.handler = "telnyx-authorizer" => last.key = <<"K1">>
     /\ last.handler = "authorizer" => Truthy(last.req.authorization))
        => /\ (AgeOfRequest > 300 /\ AgeOfRequest <= 3600) => last.effect = "Allow"
           /\ AgeOfRequest > 3600 => last.effect = "Deny"

\* the step is an SMS handler invocation that processed a message.received
\* event
ProcessedReceived ==
    /\ Idle
    /\ last'.handler = "sms-handler"
    /\ last'.action = "message_received"
    /\ last'.result = "processed"

\* C16: every processed message.received event leaves the sender's
\* conversation item with the message text and id, state active, and a
\* message_count one higher than before (1 when there was no item), and is
\* answered 200.
C16_UpsertIncrementsCount ==
    [][ ProcessedReceived =>
          LET data == last'.req.body
              before == GetConversation(conversations, data.phone)
              after == GetConversation(conversations', data.phone)
          IN  /\ last'.status = 200
              /\ after.last_message = data.text
              /\ after.last_message_id = data.id
              /\ after.conversation_state = "active"
              /\ after.message_count = before.message_count + 1 ]_vars

WriteFailed == \E i \in DOMAIN last.writes : ~last.writes[i].ok

\* the SMS handler asked again, at this instant and in this state, with the
\* request of the invocation in progress
Retry(fetchOk, convOk, metricOk) ==
    sms_lambda_handler(last.req, NACL_AVAILABLE, public_key_cache, cache_timestamp,
                       now, secret, conversations, analytics, fetchOk, convOk, metricOk)

\* C18: when a table write fails while the SMS handler dispatches a validly
\* signed message.received event, the response is 200 (never 401, and not
\* the 500 of an escaped exception), the result is reported as an error, and
\* a retry of the same request is verified with the same verdict from the
\* cached key and dispatched again, processed when its writes succeed.
C18_StorageFailureIsReported ==
    (/\ last.handler = "sms-handler"
     /\ SignatureVerifies
     /\ last.action = "message_received"
     /\ WriteFailed)
        => /\ last.status = 200
           /\ last.result = "error"
           /\ \A fetchOk, convOk, metricOk \in BOOLEAN :
                 LET r == Retry(fetchOk, convOk, metricOk)
                 IN  /\ r.v.verdict = last.verdict
                     /\ r.key.fetched = 0
                     /\ r.key.ret = last.key
                     /\ r.status = 200
                     /\ r.out.action = "message_received"
                     /\ (convOk /\ metricOk) => r.out.status = "processed"

\* the conversations put_item raised while a validly signed message.received
\* event was dispatched: answered 200 with an error result
C18_Witness ==
    /\ last.handler = "sms-handler"
    /\ SignatureVerifies
    /\ last.action = "message_received"
    /\ last.writes = << Write("conversations", "active", FALSE) >>
    /\ last.status = 200
    /\ last.result = "error"

\* json.loads(payload) raises JSONDecodeError
Unparseable(body) == body.kind \in {"empty", "notjson"}

\* C19: a request whose signature verifies and whose body is not parseable
\* JSON gets 400 from the SMS handler with nothing dispatched and nothing
\* written; and 400 is returned only for requests whose Ed25519 verification
\* succeeded, an unparseable body with a failing signature getting 401.
C19_BadRequestOnlyAfterVerification ==
    last.handler = "sms-handler"
        => /\ (last.verdict = "Valid" /\ SignatureVerifies /\ Unparseable(last.req.body))
                 => (last.status = 400 /\ last.result = "none" /\ last.writes = <<>>)
           /\ last.status = 400 => SignatureVerifies
           /\ (Unparseable(last.req.body) /\ ~SignatureVerifies) => last.status = 401

\* an unexpected fault was raised while the SMS handler handled the request:
\* the request passed validation and json.loads raised something other than
\* JSONDecodeError
Faulted ==
    /\ last.handler = "sms-handler"
    /\ last.verdict = "Valid"
    /\ last.req.body.kind = "deep"

\* analytics items stored by the invocation in progress that are flagged for
\* review
ReviewEntries ==
    { i \in Stored("analytics") : last.writes[i].kind \in {"fallback_event", "fallback_error"} }

\* C20: a request during which the SMS handler raised an unexpected fault
\* ends with a success acknowledgment and with an analytics item flagged for
\* review stored.
C20_FaultEndsAcknowledgedAndAudited ==
    Faulted => (last.status = 200 /\ ReviewEntries # {})

\* the body of the invocation's request is a message.received event
IsReceived == last.req.body.kind = "object" /\ last.req.body.event_type = "message.received"

\* put_item calls of the invocation on the conversations table, failed or not
ConversationWrites ==
    { i \in DOMAIN last.writes : last.writes[i].table = "conversations" }

HandledOtherEvent ==
    /\ Idle
    /\ last'.handler = "sms-handler"
    /\ last'.verdict = "Valid"
    /\ Ed25519Verify(last'.key, last'.req.timestamp, last'.req.body, last'.req.signature)
    /\ last'.req.body.kind = "object"
    /\ last'.req.body.event_type # "message.received"

\* C22: a valid request whose event_type is message.sent, message.delivered,
\* message.failed, unknown or missing is answered 200 by the SMS handler and
\* leaves the conversations table as it was; an unknown or missing type gives
\* the result ignored, never error.
C22_OtherEventsLeaveStoreUnchanged ==
    [][ HandledOtherEvent =>
          /\ last'.status = 200
          /\ conversations' = conversations
          /\ last'.writes = <<>>
          /\ IF last'.req.body.event_type \in TelnyxEvents
             THEN last'.result = "processed"
             ELSE last'.result = "ignored" ]_vars

\* a valid request with no event_type, acknowledged as ignored
C22_Witness ==
    /\ last.handler = "sms-handler"
    /\ last.verdict = "Valid"
    /\ SignatureVerifies
    /\ last.req.body = Event("", "", "", "")
    /\ last.status = 200
    /\ last.result = "ignored"

\* the request's signature header is empty, its timestamp header is empty,
\* or its timestamp is not the text of an integer
MalformedHeaders ==
    \/ last.req.signature.kind = "empty"
    \/ last.req.timestamp.kind # "int"

\* C23: in every configuration of the verifier, a request whose signature
\* header is empty, whose timestamp header is empty or whose timestamp does
\* not parse as an integer is rejected by the SMS handler with 401 and never
\* dispatched, and is denied by the authorizer.
C23_MalformedHeadersRejected ==
    /\ (last.handler = "sms-handler" /\ MalformedHeaders)
          => (last.verdict # "Valid" /\ last.status = 401 /\ last.result = "none")
    /\ (last.handler = "telnyx-authorizer" /\ MalformedHeaders)
          => last.effect = "Deny"

\* C24: under any interleaving of concurrent callers, the instant stored in
\* _cache_timestamp is never later than the instant at which the key stored
\* in _public_key_cache was read from the secret store.
C24_TimestampNotAfterKeyRead ==
    Truthy(public_key_cache) => cache_timestamp <= key_read_at

\* the call asked the secret store and the store raised
FetchFailed(c) == c.fetched = 1 /\ c.ret = None

\* C25: a failed secret-store fetch leaves the cache entry (key and fetched-at
\* instant) exactly as it was before the call; the call that follows a failed
\* one asks the secret store again; and an entry that held a key before a
\* failed call holds the same key after it.
C25_FailureIsNotCached ==
    /\ \A i \in DOMAIN keyCalls :
          LET c == keyCalls[i]
          IN  FetchFailed(c) => c.cache = c.cache0 /\ c.cts = c.cts0
    /\ (Len(keyCalls) = 2 /\ FetchFailed(keyCalls[1]))
          => /\ keyCalls[2].fetched = 1
             /\ keyCalls[2].cache0 = keyCalls[1].cache0
             /\ keyCalls[2].cts0 = keyCalls[1].cts0

\* a fetch fails on an entry that an earlier success had filled, the entry is
\* still there, and the next call fetches again
C25_Witness ==
    /\ Len(keyCalls) = 2
    /\ FetchFailed(keyCalls[1])
    /\ Truthy(keyCalls[1].cache0)
    /\ keyCalls[1].cache = keyCalls[1].cache0
    /\ keyCalls[2].fetched = 1
    /\ Truthy(keyCalls[2].ret)

\* the SMS handler takes a request whose signature or timestamp header is
\* empty or missing
HandledWithoutHeaders ==
    /\ Idle
    /\ last'.handler = "sms-handler"
    /\ \/ last'.req.signature.kind = "empty"
       \/ last'.req.timestamp.kind = "empty"

\* C26: the SMS handler rejects a request with an empty or missing signature
\* or timestamp header without consulting the Secret Cache: the request is
\* answered 401, no get_secret_value call is made and the cache entry (key
\* and fetched-at instant) is left as it was.
C26_NoHeadersNoSecretRead ==
    [][ HandledWithoutHeaders =>
          /\ last'.status = 401
          /\ last'.fetched = 0
          /\ public_key_cache' = public_key_cache
          /\ cache_timestamp' = cache_timestamp ]_vars

\* a request without a signature header met an empty cache, and the cache
\* is still empty
C26_Witness ==
    /\ last.handler = "sms-handler"
    /\ last.req.signature.kind = "empty"
    /\ last.req.timestamp.kind = "int"
    /\ last.status = 401
    /\ last.fetched = 0
    /\ ~Truthy(public_key_cache)

\* the SMS handler dispatches a message.received event
DispatchedReceived ==
    /\ Idle
    /\ last'.handler = "sms-handler"
    /\ last'.action = "message_received"

\* C27: when the SMS handler dispatches a message.received event, the
\* message_received metric is put only after the conversation put_item
\* succeeded: a failed conversation write ends the handler with no metric
\* write and both tables as they were; a failed metric write leaves the
\* conversation item just written in the table, the analytics table as it
\* was, and the result error.
C27_MetricAfterConversation ==
    [][ DispatchedReceived =>
          LET w == last'.writes
              data == last'.req.body
          IN  /\ Len(w) \in {1, 2}
              /\ w[1].table = "conversations"
              /\ Len(w) = 2 <=> w[1].ok
              /\ Len(w) = 2 => w[2].table = "analytics"
              /\ ~w[1].ok => /\ conversations' = conversations
                             /\ analytics' = analytics
                             /\ last'.result = "error"
              /\ (Len(w) = 2 /\ ~w[2].ok)
                    => /\ GetConversation(conversations', data.phone)
                            = ConvItem(data.phone, data.text, data.id, "active", Absent)
                       /\ analytics' = analytics
                       /\ last'.result = "error"
              /\ analytics' # analytics => (w[1].ok /\ last'.result = "processed") ]_vars

\* the metric put_item raised after the conversation item was written: the
\* item is in the table and the result is error
C27_Witness ==
    /\ last.handler = "sms-handler"
    /\ last.action = "message_received"
    /\ last.writes = << Write("conversations", "active", TRUE),
                        Write("analytics", "message_received", FALSE) >>
    /\ last.result = "error"
    /\ GetConversation(conversations, last.req.body.phone).last_message = last.req.body.text
    /\ analytics = <<>>

\* the invocation's put_item of a fallback_processed conversation item
\* succeeded
FallbackWriteSucceeded ==
    \E i \in ConversationWrites :
        last.writes[i].kind = "fallback_processed" /\ last.writes[i].ok

\* the invocation's put_item on the conversations table raised
FallbackWriteFailed == \E i \in ConversationWrites : ~last.writes[i].ok

\* C28: the telnyx-fallback response says processed=true exactly when the
\* payload was a message.received event and the put_item of a conversation
\* item with state fallback_processed succeeded in that invocation (the item
\* is then in the table); when that put_item fails the response is 200 with
\* processed=false and requires_manual_review=true.
C28_ProcessedIffStored ==
    last.handler = "telnyx-fallback"
        => /\ telnyx_fallback_response(last.result).processed = "true"
                <=> (IsReceived /\ FallbackWriteSucceeded)
           /\ telnyx_fallback_response(last.result).processed = "true"
                => GetConversation(conversations, last.req.body.phone).conversation_state
                      = "fallback_processed"
           /\ FallbackWriteFailed
                => /\ last.status = 200
                   /\ telnyx_fallback_response(last.result).processed = "false"
                   /\ telnyx_fallback_response(last.result).requires_manual_review = "true"

\* the conversations put_item raised on a message.received event: the event
\* is acknowledged and left for review
C28_Witness ==
    /\ last.handler = "telnyx-fallback"
    /\ IsReceived
    /\ FallbackWriteFailed
    /\ last.status = 200
    /\ last.result = "logged"
    /\ ~last.processed

\* the telnyx-fallback handler stores a message.received event
FallbackStored ==
    /\ Idle
    /\ last'.handler = "telnyx-fallback"
    /\ last'.processed

\* the SMS handler's conversation put_item for a message.received event
\* succeeds
PrimaryStored ==
    /\ Idle
    /\ last'.handler = "sms-handler"
    /\ last'.action = "message_received"
    /\ last'.writes # <<>>
    /\ last'.writes[1].ok

C30_AuthorizerFailsClosed ==
    (last.handler \in {"authorizer", "telnyx-authorizer"} /\ last.effect = "Allow")
        => /\ Truthy(last.key)
           /\ last.req.signature.kind # "empty"
           /\ last.req.timestamp.kind = "int"
           /\ AgeOfRequest >= -AUTH_FUTURE_SKEW
           /\ AgeOfRequest <= AUTH_TOLERANCE
           /\ last.verdict = "Valid"

====
